---- MODULE Spec2Model ----
(***************************************************************************)
(* Model of find_school_districts.py: a batch pipeline that geocodes the   *)
(* address of every school of a CSV table, joins the resulting points with *)
(* the school-district polygons of one state, filters the join by grade    *)
(* range and writes two CSV files.                                         *)
(*                                                                         *)
(* Text that the program takes apart (grade fields) is a sequence of       *)
(* one-character strings; text it only joins or compares is a string.      *)
(* Python's None / pandas' missing value is the record None, a float NaN   *)
(* is the record NaN.  Row labels are 1..N here, 0..N-1 in pandas.         *)
(***************************************************************************)
EXTENDS Integers, Sequences, FiniteSets, TLC

\* Largest number of rows of the schools table.
MaxRows == 2

None == [t |-> "None"]
NaN == [t |-> "nan"]
\* A text value of a table cell: a string, or the sequence of its characters
\* where the program parses it.
Str(chars) == [t |-> "str", s |-> chars]

----------------------------------------------------------------------------
(* Numeric parsing of text, as pd.to_numeric / pd.read_csv do it.          *)

Digits == {"0", "1", "2", "5", "9"}

DigitVal(c) ==
    CASE c = "0" -> 0 [] c = "1" -> 1 [] c = "2" -> 2 [] c = "5" -> 5 [] c = "9" -> 9

IsDigits(s) == \A k \in 1..Len(s) : s[k] \in Digits

RECURSIVE Magnitude(_)
Magnitude(s) ==
    IF s = << >> THEN 0
    ELSE 10 * Magnitude(SubSeq(s, 1, Len(s) - 1)) + DigitVal(s[Len(s)])

Num(neg, whole) == [t |-> "num", neg |-> neg, whole |-> whole]
Inf(neg) == [t |-> "inf", neg |-> neg]

\* The floating-point value a text spells, NaN when it spells none:
\* [sign] digits [ "." digits ], [sign] "inf" | "infinity", "nan".
\* The fraction digits are dropped here because the only consumer truncates.
ParseFloat(s) ==
    LET signed == Len(s) > 0 /\ s[1] \in {"-", "+"}
        neg == Len(s) > 0 /\ s[1] = "-"
        body == IF signed THEN SubSeq(s, 2, Len(s)) ELSE s
        dots == {k \in 1..Len(body) : body[k] = "."}
        dot == IF dots = {} THEN Len(body) + 1 ELSE CHOOSE k \in dots : \A m \in dots : k <= m
        whole == SubSeq(body, 1, dot - 1)
        frac == SubSeq(body, dot + 1, Len(body))
    IN  IF body \in {<<"i", "n", "f">>, <<"i", "n", "f", "i", "n", "i", "t", "y">>}
        THEN Inf(neg)
        ELSE IF body = <<"n", "a", "n">> THEN NaN
        ELSE IF /\ IsDigits(whole)
                /\ IsDigits(frac)
                /\ Len(whole) + Len(frac) > 0
        THEN Num(neg, Magnitude(whole))
        ELSE NaN

\* pd.to_numeric(column, errors="coerce") on one value: a missing value and
\* a text that is no number both become NaN.
to_numeric(v) == IF v = None THEN NaN ELSE ParseFloat(v.s)

\* .fillna(0)
fillna0(x) == IF x = NaN THEN Num(FALSE, 0) ELSE x

\* .astype(int) on one float: truncation toward zero; a non-finite value
\* makes the whole conversion raise.
astype_int_raises(x) == x.t # "num"
astype_int(x) == IF x.neg THEN 0 - x.whole ELSE x.whole

\* A coercion that clamps a negative grade to 0.
CoerceGradeClamped(v) ==
    LET x == fillna0(to_numeric(v)) IN IF x.neg THEN 0 ELSE x.whole

\* The grade coercion of read_shapefile applied to one field value.
CoerceRaises(v) == astype_int_raises(fillna0(to_numeric(v)))
CoerceGrade(v) == astype_int(fillna0(to_numeric(v)))

----------------------------------------------------------------------------
(* The schools CSV.                                                        *)

Int_(n) == [t |-> "int", v |-> n]

\* An optionally signed run of digits, the text read_csv reads as an integer.
IsIntLiteral(s) ==
    LET body == IF Len(s) > 0 /\ s[1] \in {"-", "+"} THEN SubSeq(s, 2, Len(s)) ELSE s
    IN  Len(body) > 0 /\ IsDigits(body)

IntLiteralValue(s) ==
    IF s[1] = "-" THEN 0 - Magnitude(SubSeq(s, 2, Len(s)))
    ELSE IF s[1] = "+" THEN Magnitude(SubSeq(s, 2, Len(s)))
    ELSE Magnitude(s)

CsvRow(address, city, state, lo, hi) ==
    [PSS_ADDRESS |-> address, PSS_CITY |-> city, PSS_STABB |-> state,
     LOGRADE |-> lo, HIGRADE |-> hi]

\* The rows a schools file is made of.  A grade cell is an integer literal,
\* a text that is no number, or empty; an address cell is a text or empty.
SchoolRows ==
    { CsvRow(Str("1 Elm St"), Str("Mesa"), Str("AZ"), Str(<<"0">>), Str(<<"5">>)),
      CsvRow(Str("2 Oak Ave"), Str("Tempe"), Str("AZ"), Str(<<"9">>), Str(<<"1", "2">>)),
      CsvRow(Str("3 Pine Rd"), Str("Mesa"), Str("AZ"), Str(<<"0">>), Str(<<"1", "2">>)),
      CsvRow(Str("4 Ash Ln"), Str("Yuma"), Str("AZ"), Str(<<"K">>), Str(<<"5">>)),
      CsvRow(Str("5 Fir Ct"), None, Str("AZ"), None, None) }

RECURSIVE SeqsUpTo(_, _)
SeqsUpTo(S, n) ==
    IF n = 0 THEN {<< >>}
    ELSE LET shorter == SeqsUpTo(S, n - 1)
         IN  shorter \cup {Append(q, x) : q \in shorter, x \in S}

\* A schools file holds at least one row.
SchoolFiles == SeqsUpTo(SchoolRows, MaxRows) \ {<< >>}

\* The dtype pd.read_csv infers for a grade column and the value it gives a
\* cell: int64 when every cell is an integer literal, float64 (NaN for an
\* empty cell) when every cell is a literal or empty, object (the text kept,
\* NaN for an empty cell) otherwise.
ColumnIsObject(cells) == \E k \in 1..Len(cells) : cells[k] # None /\ ~IsIntLiteral(cells[k].s)

ReadCell(cell, isObject) ==
    IF cell = None THEN NaN
    ELSE IF isObject THEN cell
    ELSE Int_(IntLiteralValue(cell.s))

\* pd.read_csv(SCHOOLS_PATH).rename(columns=str.upper)
read_csv(file) ==
    LET loObj == ColumnIsObject([k \in 1..Len(file) |-> file[k].LOGRADE])
        hiObj == ColumnIsObject([k \in 1..Len(file) |-> file[k].HIGRADE])
    IN  [k \in 1..Len(file) |->
            [PSS_ADDRESS |-> file[k].PSS_ADDRESS,
             PSS_CITY |-> file[k].PSS_CITY,
             PSS_STABB |-> file[k].PSS_STABB,
             LOGRADE |-> ReadCell(file[k].LOGRADE, loObj),
             HIGRADE |-> ReadCell(file[k].HIGRADE, hiObj)]]

----------------------------------------------------------------------------
(* Geometry: points of an integer grid, polygons as open boxes.            *)

Point(lng, lat) == [t |-> "Point", x |-> lng, y |-> lat]
Box(x1, x2, y1, y2) == [x1 |-> x1, x2 |-> x2, y1 |-> y1, y2 |-> y2]

\* shapely's "within": the point lies in the interior of the polygon.
Within(p, g) == g.x1 < p.x /\ p.x < g.x2 /\ g.y1 < p.y /\ p.y < g.y2

BoxA == Box(0, 4, 0, 4)
BoxB == Box(2, 6, 2, 6)

----------------------------------------------------------------------------
(* The district shapefile.                                                 *)

RawPoly(statefp, name, geometry, lo, hi) ==
    [STATEFP |-> statefp, NAME |-> name, geometry |-> geometry,
     LOGRADE |-> lo, HIGRADE |-> hi]

Shapefiles ==
    { << RawPoly("04", "A", BoxA, Str(<<"K">>), Str(<<"1", "2">>)),
         RawPoly("06", "C", BoxA, Str(<<"0">>), Str(<<"1", "2">>)),
         RawPoly("04", "B", BoxB, Str(<<"0", "5">>), Str(<<"0", "9">>)) >>,
      << RawPoly("04", "D", BoxB, Str(<<"-", "2">>), None),
         RawPoly("04", "A", BoxA, Str(<<"0">>), Str(<<"1", "2">>)) >>,
      << RawPoly("04", "E", BoxA, Str(<<"i", "n", "f">>), Str(<<"1", "2">>)) >>,
      << RawPoly("04", "F", BoxA, Str(<<"9", ".", "5">>), Str(<< >>)),
         RawPoly("04", "G", BoxB, Str(<<"a", "b", "c">>), Str(<<"9">>)) >>,
      << RawPoly("04", "B", BoxB, Str(<<"5">>), Str(<<"9">>)) >>,
      << >> }

\* The default state_fip of read_shapefile (Arizona).
state_fip == "04"

RECURSIVE SelectIndices(_, _)
\* The row labels of the rows of gdf with STATEFP = fip, in file order.
SelectIndices(gdf, fip) ==
    IF gdf = << >> THEN << >>
    ELSE LET rest == SelectIndices(SubSeq(gdf, 1, Len(gdf) - 1), fip)
         IN  IF gdf[Len(gdf)].STATEFP = fip THEN Append(rest, Len(gdf)) ELSE rest

\* The astype(int) of either grade column raises on a non-finite value.
read_shapefile_raises(gdf) ==
    \E k \in 1..Len(gdf) :
        /\ gdf[k].STATEFP = state_fip
        /\ (CoerceRaises(gdf[k].LOGRADE) \/ CoerceRaises(gdf[k].HIGRADE))

\* The rows of the state, keeping their row label, with the grades coerced.
read_shapefile(gdf) ==
    LET labels == SelectIndices(gdf, state_fip)
    IN  [k \in 1..Len(labels) |->
            [index |-> labels[k],
             NAME |-> gdf[labels[k]].NAME,
             geometry |-> gdf[labels[k]].geometry,
             LOGRADE |-> CoerceGrade(gdf[labels[k]].LOGRADE),
             HIGRADE |-> CoerceGrade(gdf[labels[k]].HIGRADE)]]

----------------------------------------------------------------------------
(* The geocoding provider and get_coordinate.                              *)

Results(items) == [t |-> "list", v |-> items]
Hit(lng, lat) == [geometry |-> [location |-> [lng |-> lng, lat |-> lat]],
                  formatted_address |-> "found"]
NoGeometry == [formatted_address |-> "found"]
NoLocation == [geometry |-> [viewport |-> "box"]]

\* What client.geocode(address) may come back with.
Responses ==
    { None,
      Results(<< >>),
      Results(<<NoGeometry>>),
      Results(<<NoLocation>>),
      Results(<<Hit(1, 1)>>),
      Results(<<Hit(3, 3), Hit(1, 1)>>),
      Results(<<Hit(7, 7)>>) }

\* client.geocode(address) raises on a transport / authentication failure.
TransportFailure == [t |-> "raise"]

ProviderOutcomes == Responses \cup {TransportFailure}

Return(v) == [k |-> "return", v |-> v]
Raise(e) == [k |-> "raise", exc |-> e]

\* get_coordinate from the outcome of its client.geocode call on.
get_coordinate(geocode_result) ==
    IF geocode_result = TransportFailure THEN Raise("TransportError")
    ELSE IF geocode_result = None THEN Return(None)
    ELSE IF Len(geocode_result.v) = 0 THEN Raise("IndexError")
    ELSE LET first == geocode_result.v[1]
         IN  IF \/ "geometry" \notin DOMAIN first
                \/ "location" \notin DOMAIN first.geometry
             THEN Return(None)
             ELSE LET location == first.geometry.location
                  IN  Return(Point(location.lng, location.lat))

----------------------------------------------------------------------------
(* get_all_coordinates: the composite address.                             *)

\* ",".join over the three address cells raises TypeError on a missing one.
join_raises(row) ==
    row.PSS_ADDRESS = None \/ row.PSS_CITY = None \/ row.PSS_STABB = None

\* A join that puts a blank after each comma.
FullAddressSpaced(row) ==
    row.PSS_ADDRESS.s \o ", " \o row.PSS_CITY.s \o ", " \o row.PSS_STABB.s

FullAddress(row) ==
    row.PSS_ADDRESS.s \o "," \o row.PSS_CITY.s \o "," \o row.PSS_STABB.s

\* An apply that hands every call the first row.
NextRowFirst(done) == 1

\* The row whose address the next geocoding call carries.
NextRow(done) == Len(done) + 1

----------------------------------------------------------------------------
(* get_districts_for_coordinates.                                          *)

\* All (school row, district row) pairs, school-major, in table order.
AllPairs(n, m) == [k \in 1..(n * m) |-> <<((k - 1) \div m) + 1, ((k - 1) % m) + 1>>]

\* gpd.sjoin(..., predicate="within"): the pairs whose point lies within
\* the polygon; a row without a point joins nothing.
sjoin(coords, polys) ==
    LET hit(p) == coords[p[1]] # None /\ Within(coords[p[1]], polys[p[2]].geometry)
    IN  SelectSeq(AllPairs(Len(coords), Len(polys)), hit)

\* Comparing a text with an integer raises TypeError; NaN compares False.
GE(a, b) == a.t = "int" /\ a.v >= b
LE(a, b) == a.t = "int" /\ a.v <= b

\* A grade test that asks for both conditions.
GradeOKBoth(school, district) ==
    GE(school.LOGRADE, district.LOGRADE) /\ LE(school.HIGRADE, district.HIGRADE)

GradeOK(school, district) ==
    GE(school.LOGRADE, district.LOGRADE) \/ LE(school.HIGRADE, district.HIGRADE)

compare_raises(df, joined) ==
    \E k \in 1..Len(joined) :
        df[joined[k][1]].LOGRADE.t = "str" \/ df[joined[k][1]].HIGRADE.t = "str"

grade_filter(df, polys, joined) ==
    LET keep(p) == GradeOK(df[p[1]], polys[p[2]])
    IN  SelectSeq(joined, keep)

RECURSIVE NamesOf(_, _, _)
\* The NAME of the pairs of school row i, in the order of the pairs.
NamesOf(pairs, polys, i) ==
    IF pairs = << >> THEN << >>
    ELSE LET rest == NamesOf(SubSeq(pairs, 1, Len(pairs) - 1), polys, i)
             last == pairs[Len(pairs)]
         IN  IF last[1] = i THEN Append(rest, polys[last[2]].NAME) ELSE rest

\* .groupby(level=0)["NAME"].agg(list): one entry per row label that has a
\* pair left, none for the others.
groupby_names(pairs, polys) ==
    [i \in {pairs[k][1] : k \in 1..Len(pairs)} |-> NamesOf(pairs, polys, i)]

get_districts_for_coordinates(df, coords, polys) ==
    groupby_names(grade_filter(df, polys, sjoin(coords, polys)), polys)

List(items) == [t |-> "list", v |-> items]

\* An assign that takes the entries of the series by position.
assign_districts_by_position(rows, series) ==
    LET labels == DOMAIN series
        nth(k) == CHOOSE d \in labels : Cardinality({e \in labels : e <= d}) = k
    IN  [i \in 1..Len(rows) |->
            [row |-> rows[i].row, COORDINATE |-> rows[i].COORDINATE,
             DISTRICTS |-> IF i <= Cardinality(labels) THEN List(series[nth(i)]) ELSE NaN]]

\* DataFrame.assign(DISTRICTS=series): the series is aligned on the row
\* label; a row the series has no entry for gets NaN.
assign_districts(rows, series) ==
    [i \in 1..Len(rows) |->
        [row |-> rows[i].row, COORDINATE |-> rows[i].COORDINATE,
         DISTRICTS |-> IF i \in DOMAIN series THEN List(series[i]) ELSE NaN]]

assign_coordinate(df, coords) ==
    [i \in 1..Len(df) |-> [row |-> df[i], COORDINATE |-> coords[i]]]

----------------------------------------------------------------------------
(* The pipeline: __main__ and get_districts_for_schools.                   *)

VARIABLES
    pc,             \* the statement the run is at, "done" or "failed"
    exc,            \* the exception that ended the run, None if none did
    log,            \* the steps taken so far, in order
    shapefile,      \* the district file as gpd.read_file gave it
    schools_df,     \* the schools table
    districts_gdf,  \* the district polygons of the state
    requests,       \* the addresses handed to client.geocode, in call order
    responses,      \* what each call that came back came back with
    coords,         \* the COORDINATE column built so far
    districts,      \* the Series get_districts_for_coordinates returned
    coords_csv,     \* schools_with_coords.csv
    districts_csv   \* schools_with_districts.csv

vars == <<pc, exc, log, shapefile, schools_df, districts_gdf, requests,
          responses, coords, districts, coords_csv, districts_csv>>

File(rows) == [t |-> "file", rows |-> rows]
Series(f) == [t |-> "series", v |-> f]

\* An order that computes the district match before it writes the first CSV.
AfterStepMatchFirst(step) ==
    CASE step = "get_all_coordinates" -> "get_districts_for_coordinates"
      [] step = "get_districts_for_coordinates" -> "to_csv_coords"
      [] step = "to_csv_coords" -> "to_csv_districts"
      [] step = "to_csv_districts" -> "done"

\* The statement that follows a step of get_districts_for_schools.
AfterStep(step) ==
    CASE step = "get_all_coordinates" -> "to_csv_coords"
      [] step = "to_csv_coords" -> "get_districts_for_coordinates"
      [] step = "get_districts_for_coordinates" -> "to_csv_districts"
      [] step = "to_csv_districts" -> "done"

Init ==
    /\ pc = "read_csv"
    /\ exc = None
    /\ log = << >>
    /\ shapefile = None
    /\ schools_df = << >>
    /\ districts_gdf = << >>
    /\ requests = << >>
    /\ responses = << >>
    /\ coords = << >>
    /\ districts = None
    /\ coords_csv = None
    /\ districts_csv = None

\* schools_df = pd.read_csv(SCHOOLS_PATH).rename(columns=str.upper)
ReadCsv ==
    /\ pc = "read_csv"
    /\ \E file \in SchoolFiles : schools_df' = read_csv(file)
    /\ pc' = "read_shapefile"
    /\ log' = Append(log, "read_csv")
    /\ UNCHANGED <<exc, shapefile, districts_gdf, requests, responses, coords,
                   districts, coords_csv, districts_csv>>

\* districts_gdf = read_shapefile(DISTRICT_SHAPEFILE_PATH)
ReadShapefile ==
    /\ pc = "read_shapefile"
    /\ \E gdf \in Shapefiles :
        /\ shapefile' = File(gdf)
        /\ IF read_shapefile_raises(gdf)
           THEN /\ pc' = "failed"
                /\ exc' = Raise("IntCastingNaNError")
                /\ UNCHANGED districts_gdf
           ELSE /\ pc' = "get_all_coordinates"
                /\ districts_gdf' = read_shapefile(gdf)
                /\ UNCHANGED exc
    /\ log' = Append(log, "read_shapefile")
    /\ UNCHANGED <<schools_df, requests, responses, coords, districts,
                   coords_csv, districts_csv>>

\* get_all_coordinates up to the apply: the client and FULL_ADDRESS.
BuildAddresses ==
    /\ pc = "get_all_coordinates"
    /\ IF \E i \in 1..Len(schools_df) : join_raises(schools_df[i])
       THEN pc' = "failed" /\ exc' = Raise("TypeError")
       ELSE pc' = "apply" /\ UNCHANGED exc
    /\ UNCHANGED <<log, shapefile, schools_df, districts_gdf, requests,
                   responses, coords, districts, coords_csv, districts_csv>>

\* The apply reaches the next row: get_coordinate calls client.geocode.
GeocodeCall ==
    /\ pc = "apply"
    /\ Len(coords) < Len(schools_df)
    /\ requests' = Append(requests, FullAddress(schools_df[NextRow(coords)]))
    /\ pc' = "geocode"
    /\ log' = Append(log, "geocode")
    /\ UNCHANGED <<exc, shapefile, schools_df, districts_gdf, responses,
                   coords, districts, coords_csv, districts_csv>>

\* client.geocode comes back and get_coordinate runs to its end.
GeocodeReturn ==
    /\ pc = "geocode"
    /\ \E outcome \in ProviderOutcomes :
        LET result == get_coordinate(outcome)
        IN  /\ responses' = Append(responses, outcome)
            /\ IF result.k = "raise"
               THEN pc' = "failed" /\ exc' = result /\ UNCHANGED coords
               ELSE pc' = "apply" /\ coords' = Append(coords, result.v) /\ UNCHANGED exc
    /\ UNCHANGED <<log, shapefile, schools_df, districts_gdf, requests,
                   districts, coords_csv, districts_csv>>

\* The apply is through: get_all_coordinates returns the GeoDataFrame.
ReturnCoordinates ==
    /\ pc = "apply"
    /\ Len(coords) = Len(schools_df)
    /\ pc' = AfterStep("get_all_coordinates")
    /\ UNCHANGED <<exc, log, shapefile, schools_df, districts_gdf, requests,
                   responses, coords, districts, coords_csv, districts_csv>>

\* schools_with_coords = schools_df.assign(...); .to_csv(coords_path)
WriteCoords ==
    /\ pc = "to_csv_coords"
    /\ coords_csv' = File(assign_coordinate(schools_df, coords))
    /\ pc' = AfterStep("to_csv_coords")
    /\ log' = Append(log, "to_csv_coords")
    /\ UNCHANGED <<exc, shapefile, schools_df, districts_gdf, requests,
                   responses, coords, districts, districts_csv>>

\* districts = get_districts_for_coordinates(coordinates, districts_gdf)
MatchDistricts ==
    /\ pc = "get_districts_for_coordinates"
    /\ IF compare_raises(schools_df, sjoin(coords, districts_gdf))
       THEN pc' = "failed" /\ exc' = Raise("TypeError") /\ UNCHANGED districts
       ELSE /\ districts' = Series(get_districts_for_coordinates(schools_df, coords, districts_gdf))
            /\ pc' = AfterStep("get_districts_for_coordinates")
            /\ UNCHANGED exc
    /\ log' = Append(log, "get_districts_for_coordinates")
    /\ UNCHANGED <<shapefile, schools_df, districts_gdf, requests, responses,
                   coords, coords_csv, districts_csv>>

\* schools_with_districts = schools_with_coords.assign(...); .to_csv(...)
WriteDistricts ==
    /\ pc = "to_csv_districts"
    /\ districts_csv' = File(assign_districts(assign_coordinate(schools_df, coords), districts.v))
    /\ pc' = AfterStep("to_csv_districts")
    /\ log' = Append(log, "to_csv_districts")
    /\ UNCHANGED <<exc, shapefile, schools_df, districts_gdf, requests,
                   responses, coords, districts, coords_csv>>

Next ==
    \/ ReadCsv
    \/ ReadShapefile
    \/ BuildAddresses
    \/ GeocodeCall
    \/ GeocodeReturn
    \/ ReturnCoordinates
    \/ WriteCoords
    \/ MatchDistricts
    \/ WriteDistricts

Spec == Init /\ [][Next]_vars

\* The run is a single thread that keeps going until it ends, and every
\* geocoding call comes back or raises.
FairSpec == Spec /\ WF_vars(Next)

----------------------------------------------------------------------------
(* Vocabulary of the properties.                                           *)

N == Len(schools_df)

\* A response whose first result carries geometry.location.
WellFormed(resp) ==
    /\ resp.t = "list"
    /\ Len(resp.v) > 0
    /\ "geometry" \in DOMAIN resp.v[1]
    /\ "location" \in DOMAIN resp.v[1].geometry

\* No response, or an empty result set: the address did not resolve.
Unresolved(resp) == resp.t = "None" \/ (resp.t = "list" /\ Len(resp.v) = 0)

\* The coordinate a response stands for: the point of its first result, null
\* when it has none.
PointOf(resp) ==
    IF WellFormed(resp)
    THEN Point(resp.v[1].geometry.location.lng, resp.v[1].geometry.location.lat)
    ELSE None

\* get_all_coordinates has returned.
Resolved == pc \in {"to_csv_coords", "get_districts_for_coordinates", "to_csv_districts", "done"}
            \/ coords_csv # None

\* get_districts_for_coordinates has returned.
Matched == districts # None

\* District row j contains the point of school row i and passes the grade test.
Qualifies(i, j) ==
    /\ coords[i] # None
    /\ Within(coords[i], districts_gdf[j].geometry)
    /\ \/ (schools_df[i].LOGRADE.t = "int" /\ schools_df[i].LOGRADE.v >= districts_gdf[j].LOGRADE)
       \/ (schools_df[i].HIGRADE.t = "int" /\ schools_df[i].HIGRADE.v <= districts_gdf[j].HIGRADE)

Qualifying(i) == {j \in 1..Len(districts_gdf) : Qualifies(i, j)}

\* The list is made of exactly the names of the qualifying districts of row i.
ListsQualifying(list, i) ==
    /\ Len(list) = Cardinality(Qualifying(i))
    /\ \A j \in Qualifying(i) : \E k \in 1..Len(list) : list[k] = districts_gdf[j].NAME
    /\ \A k \in 1..Len(list) : \E j \in Qualifying(i) : list[k] = districts_gdf[j].NAME

MatchList(i) == IF i \in DOMAIN districts.v THEN districts.v[i] ELSE << >>

----------------------------------------------------------------------------
(* C1: get_coordinate turns every provider response into a coordinate and  *)
(* never raises: the point of the first result for a well-formed response, *)
(* null for a missing or malformed one (no response, an empty result set,  *)
(* a first result without geometry or without location).                   *)
C1_FailsSoftly ==
    \A k \in 1..Len(responses) :
        responses[k] # TransportFailure =>
            /\ Len(coords) >= k
            /\ coords[k] = PointOf(responses[k])

----------------------------------------------------------------------------
(* C2: for every row with a point the match list holds exactly the names   *)
(* of the districts that contain the point and pass                        *)
(* (school low >= district low) OR (school high <= district high).         *)
C2_MatchListExact ==
    Matched =>
        \A i \in 1..N : coords[i] # None => ListsQualifying(MatchList(i), i)

\* A school (0, 12) inside both A (0, 12) and B (5, 9): B is rejected because
\* both conditions fail, and the list is exactly [A].
C2_Witness ==
    /\ Matched
    /\ \E i \in 1..N :
        /\ schools_df[i].LOGRADE = Int_(0) /\ schools_df[i].HIGRADE = Int_(12)
        /\ coords[i] # None
        /\ \E a, b \in 1..Len(districts_gdf) :
            /\ districts_gdf[a].LOGRADE = 0 /\ districts_gdf[a].HIGRADE = 12
            /\ districts_gdf[b].LOGRADE = 5 /\ districts_gdf[b].HIGRADE = 9
            /\ Within(coords[i], districts_gdf[a].geometry)
            /\ Within(coords[i], districts_gdf[b].geometry)
            /\ MatchList(i) = <<districts_gdf[a].NAME>>

----------------------------------------------------------------------------
(* C3: a row whose address does not resolve gets a null coordinate, and a  *)
(* row with a null coordinate has no entry in the district-match result.   *)
C3_UnresolvedExcluded ==
    /\ \A k \in 1..Len(responses) :
        Unresolved(responses[k]) => Len(coords) >= k /\ coords[k] = None
    /\ Matched => \A i \in 1..N : coords[i] = None => i \notin DOMAIN districts.v

----------------------------------------------------------------------------
(* C4: get_all_coordinates returns one coordinate per input row, in row    *)
(* order; the coordinate of row i is the geocoding result of row i's own   *)
(* address "address,city,state".                                           *)
C4_OneCoordinatePerRow ==
    Resolved =>
        /\ Len(coords) = N
        /\ \A i \in 1..N :
            /\ requests[i] = schools_df[i].PSS_ADDRESS.s \o "," \o schools_df[i].PSS_CITY.s
                             \o "," \o schools_df[i].PSS_STABB.s
            /\ coords[i] = PointOf(responses[i])

C4_Witness ==
    /\ Resolved
    /\ N = 2
    /\ requests[1] = "2 Oak Ave,Tempe,AZ"
    /\ requests[2] = "1 Elm St,Mesa,AZ"
    /\ coords[1] = None
    /\ coords[2] = Point(3, 3)

----------------------------------------------------------------------------
(* C5 as stated: where the district match is computed every grade bound,   *)
(* of every school record and of every district polygon, is an integer     *)
(* >= 0.                                                                   *)
AtMatch == pc = "get_districts_for_coordinates" \/ Matched

C5_GradesNonNegative ==
    AtMatch =>
        /\ \A i \in 1..N :
            /\ schools_df[i].LOGRADE.t = "int" /\ schools_df[i].LOGRADE.v >= 0
            /\ schools_df[i].HIGRADE.t = "int" /\ schools_df[i].HIGRADE.v >= 0
        /\ \A j \in 1..Len(districts_gdf) :
            districts_gdf[j].LOGRADE >= 0 /\ districts_gdf[j].HIGRADE >= 0

NumericChars == Digits \cup {"-", "+", "."}
NonFiniteWords == {<<"i", "n", "f">>, <<"n", "a", "n">>}

\* A field value that spells no number: missing, empty, or holding a
\* character no number has.
Unparseable(v) ==
    \/ v = None
    \/ v.s = << >>
    \/ /\ \E k \in 1..Len(v.s) : v.s[k] \notin NumericChars
       /\ \A w \in NonFiniteWords : ~\E k \in 1..Len(v.s) - 2 : SubSeq(v.s, k, k + 2) = w

\* The grade is the integer its field value stands for: 0 for one that
\* spells no number, the literal's value, sign included, for a literal.
GradeOfField(grade, v) ==
    /\ grade \in Int
    /\ Unparseable(v) => grade = 0
    /\ (v # None /\ IsIntLiteral(v.s)) => grade = IntLiteralValue(v.s)

(* C5 as amended: where the district match is computed every grade bound   *)
(* of every district polygon is an integer; a field that spells no number  *)
(* (or is missing) has become 0, a field that spells an integer keeps its  *)
(* value, sign included.                                                   *)
C5_DistrictGradesIntegers ==
    AtMatch =>
        \A j \in 1..Len(districts_gdf) :
            LET raw == shapefile.rows[districts_gdf[j].index]
            IN  /\ GradeOfField(districts_gdf[j].LOGRADE, raw.LOGRADE)
                /\ GradeOfField(districts_gdf[j].HIGRADE, raw.HIGRADE)

\* The match is computed over a district whose low grade "-2" stayed -2 and
\* whose missing high grade became 0.
C5_Witness ==
    /\ AtMatch
    /\ \E j \in 1..Len(districts_gdf) :
        /\ shapefile.rows[districts_gdf[j].index].LOGRADE = Str(<<"-", "2">>)
        /\ shapefile.rows[districts_gdf[j].index].HIGRADE = None
        /\ districts_gdf[j].LOGRADE = 0 - 2
        /\ districts_gdf[j].HIGRADE = 0

----------------------------------------------------------------------------
(* C6: the loader's grade coercion never fails and maps every field value  *)
(* to an integer: 0 for a value that does not parse as an integer, the     *)
(* parsed value, sign included, for one that does.                         *)
ClaimedGrade(v) ==
    IF v # None /\ IsIntLiteral(v.s) THEN IntLiteralValue(v.s) ELSE 0

C6_CoercionTotal ==
    shapefile # None =>
        /\ exc # Raise("IntCastingNaNError")
        /\ \A j \in 1..Len(districts_gdf) :
            LET raw == shapefile.rows[districts_gdf[j].index]
            IN  /\ districts_gdf[j].LOGRADE = ClaimedGrade(raw.LOGRADE)
                /\ districts_gdf[j].HIGRADE = ClaimedGrade(raw.HIGRADE)

----------------------------------------------------------------------------
(* C7: the second CSV has exactly the input rows in input order; the       *)
(* district list of row r is the match list of row r's own point when some *)
(* district qualifies, and blank otherwise, and a row without a qualifying *)
(* district has no entry in the matcher's result.                          *)
C7_DistrictsCsvAligned ==
    districts_csv # None =>
        /\ Len(districts_csv.rows) = N
        /\ \A r \in 1..N :
            /\ districts_csv.rows[r].row = schools_df[r]
            /\ districts_csv.rows[r].COORDINATE = coords[r]
            /\ IF Qualifying(r) = {}
               THEN /\ districts_csv.rows[r].DISTRICTS = NaN
                    /\ r \notin DOMAIN districts.v
               ELSE /\ districts_csv.rows[r].DISTRICTS # NaN
                    /\ ListsQualifying(districts_csv.rows[r].DISTRICTS.v, r)

\* Row 1 has a point outside every district and is blank, row 2 has a list.
C7_Witness ==
    /\ districts_csv # None
    /\ N = 2
    /\ coords[1] # None
    /\ districts_csv.rows[1].DISTRICTS = NaN
    /\ districts_csv.rows[2].DISTRICTS = List(<<"A">>)

----------------------------------------------------------------------------
(* C8: the steps run once each in the order load schools, load districts,  *)
(* resolve coordinates, write CSV #1, compute matches, write CSV #2; CSV #1 *)
(* is written only after every row is geocoded and before the match        *)
(* starts, CSV #2 only after CSV #1; a run in which no step fails writes   *)
(* both files in the end.                                                  *)
ExpectedLog ==
    <<"read_csv", "read_shapefile">>
    \o [k \in 1..N |-> "geocode"]
    \o <<"to_csv_coords", "get_districts_for_coordinates", "to_csv_districts">>

IsPrefix(a, b) == Len(a) <= Len(b) /\ SubSeq(b, 1, Len(a)) = a

Logged(step) == \E k \in 1..Len(log) : log[k] = step

StepsInOrder ==
    /\ log # << >> => IsPrefix(log, ExpectedLog)
    /\ coords_csv # None <=> Logged("to_csv_coords")
    /\ districts_csv # None <=> Logged("to_csv_districts")
    /\ coords_csv # None => Len(coords) = N /\ Len(responses) = N
    /\ Logged("get_districts_for_coordinates") => coords_csv # None
    /\ districts_csv # None => coords_csv # None /\ Matched

C8_PipelineOrder ==
    /\ []StepsInOrder
    /\ <>(pc = "failed" \/ (coords_csv # None /\ districts_csv # None))

C8_Witness == pc = "done" /\ N = 2 /\ coords_csv # None /\ districts_csv # None

----------------------------------------------------------------------------
(* C9: one geocoding call per row, one at a time, in row order, none       *)
(* repeated: the k-th call carries the k-th row's address, a call is       *)
(* issued only when every earlier call has come back, and a run that       *)
(* resolves every row has issued exactly as many calls as there are rows.  *)
AddressOfRow(k) ==
    schools_df[k].PSS_ADDRESS.s \o "," \o schools_df[k].PSS_CITY.s \o ","
    \o schools_df[k].PSS_STABB.s

C9_OneCallPerRow ==
    /\ Len(requests) <= N
    /\ Len(requests) - Len(responses) \in {0, 1}
    /\ (Len(requests) - Len(responses) = 1) <=> (pc = "geocode")
    /\ Len(requests) <= Len(coords) + 1
    /\ \A k \in 1..Len(requests) : requests[k] = AddressOfRow(k)
    /\ Resolved => Len(requests) = N

C9_Witness ==
    /\ Resolved
    /\ Len(requests) = 2
    /\ requests[1] # requests[2]
    /\ Len(responses) = 2

----------------------------------------------------------------------------
(* C10: once the input files are loaded a run ends in failure only through *)
(* a provider / transport failure of a geocoding call; such a failure ends *)
(* the run, after it no further call is issued and neither CSV is written. *)
C10_SoleFatalPath ==
    /\ (pc = "failed" /\ exc # Raise("IntCastingNaNError")) => exc = Raise("TransportError")
    /\ \A k \in 1..Len(responses) :
        responses[k] = TransportFailure =>
            /\ pc = "failed"
            /\ k = Len(requests)
            /\ coords_csv = None
            /\ districts_csv = None

====
